---- MODULE Spec2Model ----
(***************************************************************************)
(* npm-global-exec (src/index.js): install a package into a fixed per-user *)
(* directory with `npm install`, retry on exit code 190, then resolve the  *)
(* package's bin entry and run it with `node`, exiting with the child's    *)
(* exit code.                                                              *)
(*                                                                         *)
(* A JavaScript string is a sequence of one-token strings: "@", "/" and    *)
(* "." are the characters the code looks at, every other token stands for  *)
(* a run of ordinary characters.                                           *)
(***************************************************************************)
EXTENDS Integers, Sequences, FiniteSets, TLC

VARIABLES
    pc,             \* position of the process: start, installing, installSpawnFailed,
                    \* backoff, running, launchSpawnFailed, exited
    argv,           \* process.argv.slice(2): the specifier and the extra arguments
    retryCount,     \* retryCount of the current installPackageLocally call
    timer,          \* delay in ms of the pending setTimeout, 0 when none is pending
    exitStatus,     \* status the process exited with, NoStatus while it runs
    chunks,         \* stdout/stderr chunks received in this invocation
    installDir,     \* INSTALL_DIR exists
    manifest,       \* content of INSTALL_DIR/package.json
    npmrc,          \* content of INSTALL_DIR/.npmrc
    nodeModules,    \* INSTALL_DIR/node_modules: [exists, trees: name -> tree]
    logBase,        \* npm-install.log as earlier invocations left it
    log,            \* lines this invocation appended to npm-install.log
    installs,       \* history: one record per npm subprocess spawned: its retryCount,
                    \* whether the package tree was on disk when installPackageLocally
                    \* was called and whether it was when npm was spawned
    closes,         \* history: exit code of every npm subprocess that closed
    cleanupCalls,   \* history: times cleanupNodeModules ran rmSync
    entry,          \* history: what executePackageBin computed, NoEntry before it ran
    childArgv,      \* arguments `node` was spawned with, <<>> when it was not
    childCode,      \* code of the child's close event, NotClosed before it
    manifestWrites, \* times the program wrote package.json, over all invocations
    npmrcWrites,    \* times the program wrote .npmrc, over all invocations
    invocation,     \* invocations started so far
    live,           \* the subprocesses spawned and not yet closed, in spawn order
    waited,         \* ms of the setTimeout delays that elapsed in this invocation
    probe,          \* input of the entry-resolution check
    answer          \* its result

vars == <<pc, argv, retryCount, timer, exitStatus, chunks, installDir, manifest,
          npmrc, nodeModules, logBase, log, installs, closes, cleanupCalls, entry,
          childArgv, childCode, manifestWrites, npmrcWrites, invocation, live,
          waited, probe, answer>>

(***************************************************************************)
(* Bounds of the model.                                                    *)
(***************************************************************************)
MaxInvocations == 2
MaxChunks == 1
MaxPartLen == 2
MaxBinEntries == 2

(***************************************************************************)
(* Strings.                                                                *)
(***************************************************************************)
Max(S) == CHOOSE m \in S : \A n \in S : n <= m

Min(S) == CHOOSE m \in S : \A n \in S : m <= n

IndexesOf(s, c) == {i \in 1..Len(s) : s[i] = c}

\* String.prototype.startsWith, for a one-character prefix
StartsWith(s, c) == Len(s) > 0 /\ s[1] = c

\* String.prototype.lastIndexOf: 0-based, -1 when c does not occur
LastIndexOf(s, c) == IF IndexesOf(s, c) = {} THEN -1 ELSE Max(IndexesOf(s, c)) - 1

\* String.prototype.substring(from, to), 0-based, to exclusive
Substring(s, from, to) == SubSeq(s, from + 1, to)

\* String.prototype.split(c)[0]: everything before the first c
SplitFirst(s, c) ==
    IF IndexesOf(s, c) = {} THEN s ELSE SubSeq(s, 1, Min(IndexesOf(s, c)) - 1)

\* String.prototype.split(c): the pieces between the occurrences of c
RECURSIVE Split(_, _)
Split(s, c) ==
    IF IndexesOf(s, c) = {} THEN <<s>>
    ELSE LET i == Min(IndexesOf(s, c))
         IN  <<SubSeq(s, 1, i - 1)>> \o Split(SubSeq(s, i + 1, Len(s)), c)

\* Array.prototype.join(c)
RECURSIVE JoinWith(_, _)
JoinWith(segs, c) ==
    IF Len(segs) = 0 THEN <<>>
    ELSE IF Len(segs) = 1 THEN segs[1]
    ELSE segs[1] \o <<c>> \o JoinWith(Tail(segs), c)

RECURSIVE SelectNonEmpty(_)
SelectNonEmpty(segs) ==
    IF Len(segs) = 0 THEN <<>>
    ELSE IF segs[1] = <<>> THEN SelectNonEmpty(Tail(segs))
    ELSE <<segs[1]>> \o SelectNonEmpty(Tail(segs))

(***************************************************************************)
(* path.join of POSIX Node: the non-empty arguments joined with "/" and    *)
(* normalised ("." and empty segments dropped, ".." resolved, a leading    *)
(* and a trailing "/" kept, "." for an empty result).                      *)
(***************************************************************************)
DotDot == <<".", ".">>

RECURSIVE NormalizeSegs(_, _, _)
NormalizeSegs(segs, acc, absolute) ==
    IF Len(segs) = 0 THEN acc
    ELSE LET s == segs[1]
             rest == Tail(segs)
         IN  IF s = <<>> \/ s = <<".">> THEN NormalizeSegs(rest, acc, absolute)
             ELSE IF s = DotDot
                  THEN IF Len(acc) > 0 /\ acc[Len(acc)] # DotDot
                       THEN NormalizeSegs(rest, SubSeq(acc, 1, Len(acc) - 1), absolute)
                       ELSE IF absolute THEN NormalizeSegs(rest, acc, absolute)
                       ELSE NormalizeSegs(rest, Append(acc, s), absolute)
             ELSE NormalizeSegs(rest, Append(acc, s), absolute)

PathNormalize(p) ==
    LET absolute == StartsWith(p, "/")
        trailing == Len(p) > 0 /\ p[Len(p)] = "/"
        body == JoinWith(NormalizeSegs(Split(p, "/"), <<>>, absolute), "/")
    IN  IF body = <<>> THEN (IF absolute THEN <<"/">> ELSE <<".">>)
        ELSE (IF absolute THEN <<"/">> ELSE <<>>) \o body
             \o (IF trailing THEN <<"/">> ELSE <<>>)

PathJoin(parts) ==
    IF SelectNonEmpty(parts) = <<>> THEN <<".">>
    ELSE PathNormalize(JoinWith(SelectNonEmpty(parts), "/"))

(***************************************************************************)
(* The fixed locations.                                                    *)
(***************************************************************************)
HomeDir == <<"/", "home">>

INSTALL_DIR == PathJoin(<<HomeDir, <<"cloudbase-mcp">>>>)

NodeModulesPath == PathJoin(<<INSTALL_DIR, <<"node_modules">>>>)

\* path.join(INSTALL_DIR, 'node_modules', actualPackageName, 'package.json')
PackageJsonPath(name) ==
    PathJoin(<<INSTALL_DIR, <<"node_modules">>, name, <<"package.json">>>>)

\* path.join(INSTALL_DIR, 'node_modules', actualPackageName, binPath)
FullBinPath(name, binPath) ==
    PathJoin(<<INSTALL_DIR, <<"node_modules">>, name, binPath>>)

(***************************************************************************)
(* executePackageBin: the canonical package name of a specifier.           *)
(***************************************************************************)
\* cutting at the first "@" whatever the specifier starts with
ActualPackageNameFirstAt(packageName) == SplitFirst(packageName, "@")

ActualPackageName(packageName) ==
    IF StartsWith(packageName, "@")
    THEN LET lastAtIndex == LastIndexOf(packageName, "@")
         IN  IF lastAtIndex > 0 THEN Substring(packageName, 0, lastAtIndex)
             ELSE packageName
    ELSE SplitFirst(packageName, "@")

(***************************************************************************)
(* The bin field of a package manifest: absent, a string, or an object     *)
(* whose entries are listed in enumeration order.                          *)
(***************************************************************************)
NoBin == [kind |-> "absent", path |-> <<>>, entries |-> <<>>]

StringBin(p) == [kind |-> "string", path |-> p, entries |-> <<>>]

ObjectBin(es) == [kind |-> "object", path |-> <<>>, entries |-> es]

\* obj[key]: the value of the entry with that key, "undefined" when there is none
Lookup(entries, key) ==
    IF \E i \in 1..Len(entries) : entries[i].key = key
    THEN [tag |-> "string",
          path |-> entries[CHOOSE i \in 1..Len(entries) : entries[i].key = key].value]
    ELSE [tag |-> "undefined", path |-> <<>>]

\* Object.values(obj)[0]
FirstValue(entries) ==
    IF Len(entries) > 0 THEN [tag |-> "string", path |-> entries[1].value]
    ELSE [tag |-> "undefined", path |-> <<>>]

\* a || b: b when a is undefined or the empty string
OrElse(a, b) == IF a.tag = "undefined" \/ a.path = <<>> THEN b ELSE a

\* the binPath of executePackageBin; tag "nobin" is its 'No bin field' branch
BinPath(bin, actualPackageName) ==
    IF bin.kind = "string" THEN [tag |-> "string", path |-> bin.path]
    ELSE IF bin.kind = "object"
         THEN OrElse(Lookup(bin.entries, actualPackageName), FirstValue(bin.entries))
    ELSE [tag |-> "nobin", path |-> <<>>]

(***************************************************************************)
(* The file system under INSTALL_DIR.  A tree of node_modules is           *)
(* [name, manifest, bin, files]: the directory node_modules/<name>, its    *)
(* package.json ("none", "ok" or "malformed"), the bin field of that       *)
(* manifest and the files the directory holds.                             *)
(***************************************************************************)
NoNodeModules == [exists |-> FALSE, trees |-> {}]

WorkspaceManifestPath == PathJoin(<<INSTALL_DIR, <<"package.json">>>>)

NpmrcPath == PathJoin(<<INSTALL_DIR, <<".npmrc">>>>)

LOG_FILE == PathJoin(<<INSTALL_DIR, <<"npm-install.log">>>>)

TreeDir(name) == PathJoin(<<NodeModulesPath, name>>)

\* the directories and files a tree puts on disk
TreePaths(t) ==
    {TreeDir(t.name), TreeDir(Split(t.name, "/")[1])}
    \cup (IF t.manifest # "none" THEN {PackageJsonPath(t.name)} ELSE {})
    \cup {PathJoin(<<TreeDir(t.name), f>>) : f \in t.files}

ExistingPathsOf(dir, man, rc, nm, logged) ==
    (IF dir THEN {INSTALL_DIR} ELSE {})
    \cup (IF man # "absent" THEN {WorkspaceManifestPath} ELSE {})
    \cup (IF rc # "absent" THEN {NpmrcPath} ELSE {})
    \cup (IF logged THEN {LOG_FILE} ELSE {})
    \cup (IF nm.exists THEN {NodeModulesPath} ELSE {})
    \cup UNION {TreePaths(t) : t \in nm.trees}

LogExists == logBase = "present" \/ log # <<>>

\* fs.existsSync in the current state
ExistsSync(p) ==
    p \in ExistingPathsOf(installDir, manifest, npmrc, nodeModules, LogExists)

\* fs.existsSync of a path under node_modules
ExistsIn(nm, p) == p \in ExistingPathsOf(TRUE, "absent", "absent", nm, FALSE)

\* the tree whose package.json is the file at p
TreeAt(nm, p) == CHOOSE t \in nm.trees : PackageJsonPath(t.name) = p

(***************************************************************************)
(* Specifiers and command lines.                                           *)
(***************************************************************************)
\* name, name@version, @scope/name, @scope/name@version; an empty scope or
\* version stands for none
Specifier(scope, name, version) ==
    (IF scope # <<>> THEN <<"@">> \o scope \o <<"/">> ELSE <<>>)
    \o name
    \o (IF version # <<>> THEN <<"@">> \o version ELSE <<>>)

\* the specifier without its version
Unversioned(scope, name) == Specifier(scope, name, <<>>)

RECURSIVE Strings(_, _)
Strings(alphabet, n) ==
    IF n = 0 THEN {<<>>}
    ELSE LET shorter == Strings(alphabet, n - 1)
         IN  shorter \cup {Append(s, c) : s \in {t \in shorter : Len(t) = n - 1},
                                          c \in alphabet}

(***************************************************************************)
(* The collaborators: what npm and the launched package may do.            *)
(***************************************************************************)
NoCode == -1

NoStatus == -1

NotClosed == -2

\* the name npm installs a specifier under: what precedes the first "@" that is
\* not the first character
NpmName(spec) ==
    IF IndexesOf(spec, "@") \ {1} = {} THEN spec
    ELSE SubSeq(spec, 1, Min(IndexesOf(spec, "@") \ {1}) - 1)

RECURSIVE EntrySeqs(_, _, _)
EntrySeqs(keys, paths, n) ==
    IF n = 0 THEN {<<>>}
    ELSE LET shorter == EntrySeqs(keys, paths, n - 1)
         IN  shorter \cup
             {Append(es, [key |-> k, value |-> v]) :
                 es \in {e \in shorter : Len(e) = n - 1},
                 k \in keys, v \in paths}

DistinctKeys(es) == \A i, j \in 1..Len(es) : es[i].key = es[j].key => i = j

BinValues(keys, paths, n) ==
    {NoBin} \cup {StringBin(p) : p \in paths}
    \cup {ObjectBin(es) : es \in {e \in EntrySeqs(keys, paths, n) : DistinctKeys(e)}}

DotA == <<".", "/", "a">>

DotB == <<".", "/", "b">>

Tree(name, m, b, f) == [name |-> name, manifest |-> m, bin |-> b, files |-> f]

\* a package whose bin is the file ./a
PlainContents(name) == {Tree(name, "ok", StringBin(DotA), {<<"a">>})}

\* what the registry may serve for a package, as npm materialises it: no
\* manifest, one that does not parse, every bin of at most one entry, and a bin
\* whose file is missing
RichContents(name) ==
    {Tree(name, m, NoBin, {}) : m \in {"none", "malformed"}}
    \cup {Tree(name, "ok", b, {<<"a">>}) :
            b \in BinValues({name, <<"x">>}, {<<>>, DotA}, 1)}
    \cup {Tree(name, "ok", StringBin(DotA), {})}

Leftover(name) == Tree(name, "none", NoBin, {})

WithTree(nm, t) ==
    [exists |-> TRUE, trees |-> {u \in nm.trees : u.name # t.name} \cup {t}]

\* npm install <pkg> records the dependency in the workspace manifest
NpmSave(man) ==
    IF man = "default" THEN "default+deps"
    ELSE IF man = "user" THEN "user+deps"
    ELSE man

RunSpecifiers ==
    {Specifier(s, <<"a">>, v) : s \in {<<>>, <<"s">>}, v \in {<<>>, <<"1">>}}

\* The two worlds the program is run in.  Both offer every event the handlers
\* react to; the second is kept small so that the program can be run again and
\* again on the workspace it left.
FullWorld ==
    [argvs |-> {<<>>, <<<<>>, <<"x">>>>}
                \cup {IF sp = Specifier(<<>>, <<"a">>, <<"1">>)
                      THEN <<sp, <<"x">>, <<"y">>>> ELSE <<sp>> : sp \in RunSpecifiers},
     npmCodes |-> {0, 1, 190, NoCode},
     rich |-> TRUE,
     leftover |-> {FALSE, TRUE},
     childCodes |-> {0, 3, NoCode}]

SmallWorld ==
    [argvs |-> {<<>>, <<Specifier(<<>>, <<"a">>, <<>>)>>},
     npmCodes |-> {0, 1, 190},
     rich |-> FALSE,
     leftover |-> {FALSE},
     childCodes |-> {0}]

PackageContents(world, name) ==
    IF world.rich THEN RichContents(name) ELSE PlainContents(name)

\* node_modules after an npm install that failed
NpmFailedOutcomes(world, nm, name) ==
    {IF l THEN WithTree(nm, Leftover(name)) ELSE nm : l \in world.leftover}

(***************************************************************************)
(* The pieces of the handlers.                                             *)
(***************************************************************************)
Line(kind, n) == [kind |-> kind, n |-> n]

\* the npm subprocess of the install call with retryCount = count
Npm(count) == [cmd |-> "npm", n |-> count]

\* the launched package
Node == [cmd |-> "node", n |-> 0]

\* spawn: one more live subprocess
Spawned(procs, p) == Append(procs, p)

\* a handler that runs while its subprocess is still live
StillRunning(procs, p) == procs

\* the 'close' event: the subprocess has ended and its streams are closed
AfterClose(procs, p) == SelectSeq(procs, LAMBDA q : q # p)

\* taking only an absent argument for a missing specifier
SpecifierMissingAbsentOnly(args) == Len(args) = 0

\* main: !packageName
SpecifierMissing(args) == IF Len(args) = 0 THEN TRUE ELSE args[1] = <<>>

\* writing the seed files on every run
SeedAlways(path) == TRUE

\* ensureInstallDirectorySilent: a seed file is written when it does not exist
SeedNeeded(path) == ~ExistsSync(path)

\* a bound that lets a fourth retry through
MaxRetriesLoose == 3 + 1

MaxRetries == 3

RetryExitCode == 190

\* retrying on every failure
ShouldRetryAnyFailure(exitCode) == exitCode # 0

\* shouldRetryInstall
ShouldRetryInstall(exitCode) == exitCode = RetryExitCode

\* the same delay before every retry
BackoffConstant(count) == 1000

\* the delay handed to setTimeout
BackoffDelay(count) == 1000 * (count + 1)

\* the arguments of spawn('node', ...)
ChildArgv(fullBinPath, args) == <<fullBinPath>> \o args

\* exiting with 1 on every failure of the child
ExitStatusFlattened(code) == IF code = 0 THEN 0 ELSE 1

\* process.exit(code): null and undefined leave the exit code 0; the status
\* of a process is one byte
ExitStatusOf(code) == IF code = NoCode THEN 0 ELSE code % 256

NoEntry == [outcome |-> "none", name |-> <<>>, binPath |-> <<>>, full |-> <<>>]

\* executePackageBin without the check that the bin file exists
ResolveEntryUnchecked(packageName, nm) ==
    LET name == ActualPackageName(packageName)
        packageJsonPath == PackageJsonPath(name)
        paths == ExistingPathsOf(TRUE, "absent", "absent", nm, FALSE)
        tree == TreeAt(nm, packageJsonPath)
        binPath == BinPath(tree.bin, name)
        full == FullBinPath(name, binPath.path)
        out(o, b, f) == [outcome |-> o, name |-> name, binPath |-> b, full |-> f]
    IN  IF packageJsonPath \notin paths THEN out("PackageNotFound", <<>>, <<>>)
        ELSE IF tree.manifest = "malformed" THEN out("ManifestSyntaxError", <<>>, <<>>)
        ELSE IF binPath.tag = "nobin" THEN out("NoBinEntry", <<>>, <<>>)
        ELSE IF binPath.tag = "undefined" THEN out("BinPathTypeError", <<>>, <<>>)
        ELSE out("spawn", binPath.path, full)

\* executePackageBin up to the spawn: the outcome and what was computed on the way
ResolveEntry(packageName, nm) ==
    LET name == ActualPackageName(packageName)
        packageJsonPath == PackageJsonPath(name)
        paths == ExistingPathsOf(TRUE, "absent", "absent", nm, FALSE)
        tree == TreeAt(nm, packageJsonPath)
        binPath == BinPath(tree.bin, name)
        full == FullBinPath(name, binPath.path)
        out(o, b, f) == [outcome |-> o, name |-> name, binPath |-> b, full |-> f]
    IN  IF packageJsonPath \notin paths THEN out("PackageNotFound", <<>>, <<>>)
        ELSE IF tree.manifest = "malformed" THEN out("ManifestSyntaxError", <<>>, <<>>)
        ELSE IF binPath.tag = "nobin" THEN out("NoBinEntry", <<>>, <<>>)
        ELSE IF binPath.tag = "undefined" THEN out("BinPathTypeError", <<>>, <<>>)
        ELSE IF full \notin paths THEN out("BinFileNotFound", binPath.path, full)
        ELSE out("spawn", binPath.path, full)

\* a retry that does not clean up
CleanupSkipped(nm) == {[nm |-> nm, lines |-> <<>>, rm |-> 0]}

\* a cleanup that empties node_modules and keeps the directory
CleanupKeepsDirectory(nm) ==
    IF ~nm.exists THEN {[nm |-> nm, lines |-> <<>>, rm |-> 0]}
    ELSE {[nm |-> [exists |-> TRUE, trees |-> {}], lines |-> <<Line("cleanup", 0)>>,
           rm |-> 1],
          [nm |-> nm, lines |-> <<Line("cleanup", 0), Line("cleanupWarning", 0)>>,
           rm |-> 1]}

\* a cleanup that swallows the failure of rmSync without logging it
CleanupSilent(nm) ==
    IF ~nm.exists THEN {[nm |-> nm, lines |-> <<>>, rm |-> 0]}
    ELSE {[nm |-> NoNodeModules, lines |-> <<Line("cleanup", 0)>>, rm |-> 1],
          [nm |-> nm, lines |-> <<Line("cleanup", 0)>>, rm |-> 1]}

\* cleanupNodeModules: node_modules afterwards, the lines logged, rmSync calls;
\* an rmSync that throws is logged and leaves node_modules in place
CleanupResults(nm) ==
    IF ~nm.exists THEN {[nm |-> nm, lines |-> <<>>, rm |-> 0]}
    ELSE {[nm |-> NoNodeModules, lines |-> <<Line("cleanup", 0)>>, rm |-> 1],
          [nm |-> nm, lines |-> <<Line("cleanup", 0), Line("cleanupWarning", 0)>>,
           rm |-> 1]}

\* installPackageLocally(packageName, additionalArgs, count) up to its return:
\* clean up on a retry, log the start, spawn npm
InstallPackageLocally(count) ==
    \E c \in (IF count > 0 THEN CleanupResults(nodeModules)
              ELSE {[nm |-> nodeModules, lines |-> <<>>, rm |-> 0]}),
       spawned \in BOOLEAN :
        /\ nodeModules' = c.nm
        /\ cleanupCalls' = cleanupCalls + c.rm
        /\ log' = log \o c.lines \o <<Line("start", count)>>
        /\ retryCount' = count
        /\ installs' = Append(installs,
              [retry |-> count,
               treeWas |-> ExistsIn(nodeModules, TreeDir(ActualPackageName(argv[1]))),
               treeLeft |-> ExistsIn(c.nm, TreeDir(ActualPackageName(argv[1])))])
        /\ pc' = IF spawned THEN "installing" ELSE "installSpawnFailed"
        /\ live' = IF spawned THEN Spawned(live, Npm(count)) ELSE live
        /\ timer' = 0

Exit(status) == pc' = "exited" /\ exitStatus' = status

(***************************************************************************)
(* The handlers.                                                           *)
(***************************************************************************)
\* main with no specifier: usage message, exit 1
MainUsage ==
    /\ pc = "start"
    /\ SpecifierMissing(argv)
    /\ Exit(1)
    /\ UNCHANGED <<argv, retryCount, timer, chunks, installDir, manifest, npmrc,
                   nodeModules, logBase, log, installs, closes, cleanupCalls, entry,
                   childArgv, childCode, manifestWrites, npmrcWrites, invocation, live,
                   waited, probe,
                   answer>>

\* main with a specifier: ensureInstallDirectorySilent, then installPackageLocally
Main ==
    /\ pc = "start"
    /\ ~SpecifierMissing(argv)
    /\ installDir' = TRUE
    /\ manifest' = IF SeedNeeded(WorkspaceManifestPath) THEN "default" ELSE manifest
    /\ manifestWrites' =
          IF SeedNeeded(WorkspaceManifestPath) THEN manifestWrites + 1
          ELSE manifestWrites
    /\ npmrc' = IF SeedNeeded(NpmrcPath) THEN "default" ELSE npmrc
    /\ npmrcWrites' = IF SeedNeeded(NpmrcPath) THEN npmrcWrites + 1 ELSE npmrcWrites
    /\ InstallPackageLocally(0)
    /\ UNCHANGED <<argv, exitStatus, chunks, logBase, closes, entry, childArgv,
                   childCode, invocation, waited, probe, answer>>

\* a 'data' handler that writes the log file instead of appending to it
InstallDataOverwrites ==
    /\ pc = "installing"
    /\ chunks < MaxChunks
    /\ chunks' = chunks + 1
    /\ log' = <<Line("chunk", retryCount)>>
    /\ UNCHANGED <<pc, argv, retryCount, timer, exitStatus, installDir, manifest, npmrc,
                   nodeModules, logBase, installs, closes, cleanupCalls, entry,
                   childArgv, childCode, manifestWrites, npmrcWrites, invocation, live,
                   waited, probe, answer>>

\* npmInstall.stdout / stderr 'data'
InstallData ==
    /\ pc = "installing"
    /\ chunks < MaxChunks
    /\ chunks' = chunks + 1
    /\ log' = Append(log, Line("chunk", retryCount))
    /\ UNCHANGED <<pc, argv, retryCount, timer, exitStatus, installDir, manifest, npmrc,
                   nodeModules, logBase, installs, closes, cleanupCalls, entry,
                   childArgv, childCode, manifestWrites, npmrcWrites, invocation, live,
                   waited, probe,
                   answer>>

\* an 'error' handler that treats the spawn failure as a transient install
\* failure and schedules a retry
InstallErrorRetried ==
    /\ pc = "installSpawnFailed"
    /\ retryCount < MaxRetries
    /\ log' = Append(log, Line("retrying", retryCount))
    /\ timer' = BackoffDelay(retryCount)
    /\ pc' = "backoff"
    /\ UNCHANGED <<argv, retryCount, exitStatus, chunks, installDir, manifest, npmrc,
                   nodeModules, logBase, installs, closes, cleanupCalls, entry,
                   childArgv, childCode, manifestWrites, npmrcWrites, invocation, live,
                   waited, probe, answer>>

\* an 'error' handler that logs the error and returns without exiting
InstallErrorSwallowed ==
    /\ pc = "installSpawnFailed"
    /\ log' = Append(log, Line("error", retryCount))
    /\ pc' = "idle"
    /\ UNCHANGED <<argv, retryCount, timer, exitStatus, chunks, installDir, manifest,
                   npmrc, nodeModules, logBase, installs, closes, cleanupCalls, entry,
                   childArgv, childCode, manifestWrites, npmrcWrites, invocation, live,
                   waited, probe, answer>>

\* npmInstall 'error'; process.exit ends the process inside the handler, so the
\* 'close' event the failed subprocess emits after 'error' finds no process
InstallError ==
    /\ pc = "installSpawnFailed"
    /\ log' = Append(log, Line("error", retryCount))
    /\ Exit(1)
    /\ UNCHANGED <<argv, retryCount, timer, chunks, installDir, manifest, npmrc,
                   nodeModules, logBase, installs, closes, cleanupCalls, entry,
                   childArgv, childCode, manifestWrites, npmrcWrites, invocation, live,
                   waited, probe,
                   answer>>

\* a 'close' handler that cleans up before it arms the timer
InstallCloseRetryCleansFirst(world) ==
    /\ pc = "installing"
    /\ \E code \in world.npmCodes \ {0},
          nm \in NpmFailedOutcomes(world, nodeModules, NpmName(argv[1])) :
        /\ retryCount < MaxRetries /\ ShouldRetryInstall(code)
        /\ \E c \in CleanupResults(nm) :
              /\ nodeModules' = c.nm
              /\ cleanupCalls' = cleanupCalls + c.rm
              /\ log' = Append(log, Line("retrying", code)) \o c.lines
        /\ closes' = Append(closes, code)
        /\ timer' = BackoffDelay(retryCount)
        /\ pc' = "backoff"
        /\ live' = AfterClose(live, Npm(retryCount))
        /\ UNCHANGED <<argv, retryCount, exitStatus, chunks, installDir, manifest, npmrc,
                       logBase, installs, entry, childArgv, childCode, manifestWrites,
                       npmrcWrites, invocation, waited, probe, answer>>

\* npmInstall 'close' with a non-zero code the code retries on: schedule the retry
InstallCloseRetry(world) ==
    /\ pc = "installing"
    /\ \E code \in world.npmCodes \ {0},
          nm \in NpmFailedOutcomes(world, nodeModules, NpmName(argv[1])) :
        /\ retryCount < MaxRetries /\ ShouldRetryInstall(code)
        /\ closes' = Append(closes, code)
        /\ nodeModules' = nm
        /\ log' = Append(log, Line("retrying", code))
        /\ timer' = BackoffDelay(retryCount)
        /\ pc' = "backoff"
        /\ live' = AfterClose(live, Npm(retryCount))
        /\ UNCHANGED <<argv, retryCount, exitStatus, chunks, installDir, manifest, npmrc,
                       logBase, installs, cleanupCalls, entry, childArgv, childCode,
                       manifestWrites, npmrcWrites, invocation, waited, probe, answer>>

\* npmInstall 'close' with any other non-zero code: log, exit 1
InstallCloseFail(world) ==
    /\ pc = "installing"
    /\ \E code \in world.npmCodes \ {0},
          nm \in NpmFailedOutcomes(world, nodeModules, NpmName(argv[1])) :
        /\ ~(retryCount < MaxRetries /\ ShouldRetryInstall(code))
        /\ closes' = Append(closes, code)
        /\ nodeModules' = nm
        /\ log' = Append(log, Line("failed", code))
        /\ live' = AfterClose(live, Npm(retryCount))
        /\ Exit(1)
        /\ UNCHANGED <<argv, retryCount, timer, chunks, installDir, manifest, npmrc,
                       logBase, installs, cleanupCalls, entry, childArgv, childCode,
                       manifestWrites, npmrcWrites, invocation, waited, probe, answer>>

\* npmInstall 'close' with code 0: log, then executePackageBin
InstallCloseOk(world) ==
    /\ pc = "installing"
    /\ 0 \in world.npmCodes
    /\ \E pkg \in PackageContents(world, NpmName(argv[1])) :
        LET nm == WithTree(nodeModules, pkg)
            e == ResolveEntry(argv[1], nm)
        IN  /\ closes' = Append(closes, 0)
            /\ nodeModules' = nm
            /\ manifest' = NpmSave(manifest)
            /\ entry' = e
            /\ IF e.outcome = "spawn"
               THEN /\ log' = log \o <<Line("success", 0), Line("executing", 0)>>
                    /\ childArgv' = ChildArgv(e.full, Tail(argv))
                    /\ \E spawned \in BOOLEAN :
                          /\ pc' = IF spawned THEN "running" ELSE "launchSpawnFailed"
                          /\ live' = IF spawned
                                     THEN Spawned(AfterClose(live, Npm(retryCount)), Node)
                                     ELSE AfterClose(live, Npm(retryCount))
                    /\ UNCHANGED exitStatus
               ELSE /\ log' = log \o <<Line("success", 0)>>
                             \o (IF e.outcome = "BinFileNotFound"
                                 THEN <<Line("binNotFound", 0)>> ELSE <<>>)
                    /\ live' = AfterClose(live, Npm(retryCount))
                    /\ Exit(1)
                    /\ UNCHANGED childArgv
            /\ UNCHANGED <<argv, retryCount, timer, chunks, installDir, npmrc, logBase,
                           installs, cleanupCalls, childCode, manifestWrites, npmrcWrites,
                           invocation, waited, probe, answer>>

\* the setTimeout callback: installPackageLocally(..., retryCount + 1)
BackoffElapsed ==
    /\ pc = "backoff"
    /\ InstallPackageLocally(retryCount + 1)
    /\ waited' = waited + timer
    /\ UNCHANGED <<argv, exitStatus, chunks, installDir, manifest, npmrc, logBase,
                   closes, entry, childArgv, childCode, manifestWrites, npmrcWrites,
                   invocation, probe, answer>>

\* childProcess 'close'
ChildClose(world) ==
    /\ pc = "running"
    /\ \E code \in world.childCodes :
        /\ childCode' = code
        /\ Exit(ExitStatusOf(code))
    /\ live' = AfterClose(live, Node)
    /\ UNCHANGED <<argv, retryCount, timer, chunks, installDir, manifest, npmrc,
                   nodeModules, logBase, log, installs, closes, cleanupCalls, entry,
                   childArgv, manifestWrites, npmrcWrites, invocation, waited, probe,
                   answer>>

\* childProcess 'error'
ChildError ==
    /\ pc = "launchSpawnFailed"
    /\ Exit(1)
    /\ UNCHANGED <<argv, retryCount, timer, chunks, installDir, manifest, npmrc,
                   nodeModules, logBase, log, installs, closes, cleanupCalls, entry,
                   childArgv, childCode, manifestWrites, npmrcWrites, invocation, live,
                   waited, probe,
                   answer>>

(***************************************************************************)
(* One run of the program on a workspace in any state.                     *)
(***************************************************************************)
OtherTree == Tree(<<"x">>, "ok", NoBin, {})

NoProbe == [kind |-> "none", scope |-> <<>>, name |-> <<>>, version |-> <<>>,
            bin |-> NoBin]

NoAnswer == [name |-> <<>>, tag |-> "none", binPath |-> <<>>, full |-> <<>>]

\* the process at its start
Fresh ==
    /\ pc = "start"
    /\ retryCount = 0
    /\ timer = 0
    /\ exitStatus = NoStatus
    /\ chunks = 0
    /\ log = <<>>
    /\ installs = <<>>
    /\ closes = <<>>
    /\ cleanupCalls = 0
    /\ entry = NoEntry
    /\ childArgv = <<>>
    /\ childCode = NotClosed
    /\ manifestWrites = 0
    /\ npmrcWrites = 0
    /\ invocation = 1
    /\ live = <<>>
    /\ waited = 0

Init ==
    /\ Fresh
    /\ probe = NoProbe /\ answer = NoAnswer
    /\ argv \in FullWorld.argvs
    /\ \/ /\ installDir = FALSE
          /\ manifest = "absent" /\ npmrc = "absent"
          /\ nodeModules = NoNodeModules /\ logBase = "absent"
       \/ /\ installDir = TRUE
          /\ manifest = "user" /\ npmrc = "user"
          /\ nodeModules = WithTree(NoNodeModules, OtherTree) /\ logBase = "present"

Step(world) ==
    \/ MainUsage
    \/ Main
    \/ InstallData
    \/ InstallError
    \/ InstallCloseRetry(world)
    \/ InstallCloseFail(world)
    \/ InstallCloseOk(world)
    \/ BackoffElapsed
    \/ ChildClose(world)
    \/ ChildError

Next == Step(FullWorld)

Spec == Init /\ [][Next]_vars

(***************************************************************************)
(* One run under the scheduling the runtime gives.  The process does not   *)
(* stay for ever where it waits for an event that is due: at "start" the   *)
(* runtime runs main; at "installing" and "running" the spawned subprocess *)
(* closes; at "installSpawnFailed" and "launchSpawnFailed" the spawn error *)
(* is reported; at "backoff" the timer fires.  Output chunks need not come.*)
(***************************************************************************)
Positions == {"start", "installing", "installSpawnFailed", "backoff", "running",
              "launchSpawnFailed", "exited"}

\* the event the process waits for at position p is delivered and handled
Leaves(p) == pc = p /\ pc' \in Positions \ {p}

Fairness == \A p \in Positions \ {"exited"} : WF_pc(Leaves(p))

SpecFair == Init /\ [][Next]_vars /\ Fairness

(***************************************************************************)
(* The program run again and again on the workspace it left.               *)
(***************************************************************************)
InitRerun ==
    /\ Fresh
    /\ probe = NoProbe /\ answer = NoAnswer
    /\ argv \in SmallWorld.argvs
    /\ nodeModules = NoNodeModules
    /\ logBase = "absent"
    /\ \/ installDir = FALSE /\ manifest = "absent" /\ npmrc = "absent"
       \/ /\ installDir = TRUE
          /\ manifest \in {"absent", "user"}
          /\ npmrc \in {"absent", "user"}

\* the operator runs the program again: a new process on the same file system
NewInvocation ==
    /\ pc = "exited"
    /\ invocation < MaxInvocations
    /\ invocation' = invocation + 1
    /\ argv' \in SmallWorld.argvs
    /\ pc' = "start"
    /\ retryCount' = 0
    /\ timer' = 0
    /\ exitStatus' = NoStatus
    /\ chunks' = 0
    /\ logBase' = IF LogExists THEN "present" ELSE "absent"
    /\ log' = <<>>
    /\ installs' = <<>>
    /\ closes' = <<>>
    /\ cleanupCalls' = 0
    /\ entry' = NoEntry
    /\ childArgv' = <<>>
    /\ childCode' = NotClosed
    /\ live' = <<>>
    /\ waited' = 0
    /\ UNCHANGED <<installDir, manifest, npmrc, nodeModules, manifestWrites,
                   npmrcWrites, probe, answer>>

NextRerun == Step(SmallWorld) \/ NewInvocation

SpecRerun == InitRerun /\ [][NextRerun]_vars

(***************************************************************************)
(* Entry resolution on its own: the name derivation and the bin resolution *)
(* of executePackageBin applied to specifiers and bin fields drawn from    *)
(* bounded sets.                                                           *)
(***************************************************************************)
NameProbes ==
    {[kind |-> "name", scope |-> s, name |-> n, version |-> v, bin |-> NoBin] :
        s \in Strings({"s", "-"}, MaxPartLen),
        n \in Strings({"a", "."}, MaxPartLen) \ {<<>>},
        v \in Strings({"1", "."}, MaxPartLen)}

BinProbes ==
    {[kind |-> "bin", scope |-> s, name |-> n, version |-> <<"1">>, bin |-> b] :
        s \in {<<>>, <<"s">>},
        n \in {<<"foo">>, <<"baz">>},
        b \in BinValues({<<"foo">>, <<"bar">>, Unversioned(<<"s">>, <<"foo">>)},
                        {<<>>, DotA, DotB}, MaxBinEntries)}

ProbeSpecifier == Specifier(probe.scope, probe.name, probe.version)

InitEntry ==
    /\ Fresh
    /\ argv = <<>>
    /\ installDir = FALSE /\ manifest = "absent" /\ npmrc = "absent"
    /\ nodeModules = NoNodeModules /\ logBase = "absent"
    /\ probe \in NameProbes \cup BinProbes
    /\ answer = NoAnswer

\* executePackageBin, lines 160-175, on the probe's specifier
DeriveName ==
    /\ probe.kind = "name"
    /\ answer = NoAnswer
    /\ answer' = [name |-> ActualPackageName(ProbeSpecifier), tag |-> "name",
                  binPath |-> <<>>, full |-> <<>>]
    /\ UNCHANGED <<pc, argv, retryCount, timer, exitStatus, chunks, installDir,
                   manifest, npmrc, nodeModules, logBase, log, installs, closes,
                   cleanupCalls, entry, childArgv, childCode, manifestWrites,
                   npmrcWrites, invocation, live, waited, probe>>

\* executePackageBin, lines 160-213, on the probe's specifier and bin field
ResolveBin ==
    /\ probe.kind = "bin"
    /\ answer = NoAnswer
    /\ LET name == ActualPackageName(ProbeSpecifier)
           binPath == BinPath(probe.bin, name)
       IN  answer' = [name |-> name, tag |-> binPath.tag, binPath |-> binPath.path,
                      full |-> IF binPath.tag = "string"
                               THEN FullBinPath(name, binPath.path) ELSE <<>>]
    /\ UNCHANGED <<pc, argv, retryCount, timer, exitStatus, chunks, installDir,
                   manifest, npmrc, nodeModules, logBase, log, installs, closes,
                   cleanupCalls, entry, childArgv, childCode, manifestWrites,
                   npmrcWrites, invocation, live, waited, probe>>

NextEntry == DeriveName \/ ResolveBin

SpecEntry == InitEntry /\ [][NextEntry]_vars

(***************************************************************************)
(* Properties.                                                             *)
(***************************************************************************)
Last(s) == s[Len(s)]

\* C1: when the launched child closes with an integer exit code c, the process
\* exits with exactly c; and the child is spawned with the resolved bin path
\* followed by all the extra arguments in their order.
C1_ChildExitCodePropagated ==
    /\ childArgv # <<>> =>
          /\ entry.outcome = "spawn"
          /\ childArgv[1] = entry.full
          /\ SubSeq(childArgv, 2, Len(childArgv)) = SubSeq(argv, 2, Len(argv))
    /\ childCode \notin {NotClosed, NoCode} =>
          /\ childArgv # <<>>
          /\ pc = "exited"
          /\ exitStatus = childCode

C1_Witness ==
    /\ pc = "exited"
    /\ childCode = 3
    /\ Len(childArgv) = 3

\* C2 as stated: a close with code 190 while retryCount < 3 leaves the process
\* running with the retry scheduled, the retry invokes install for the same
\* specifier with retryCount + 1, and the package tree is off the disk when
\* that npm is spawned.
C2_TreeDeletedBeforeRetry ==
    [][/\ (pc = "installing" /\ retryCount < 3 /\ closes' = Append(closes, 190)) =>
             (pc' = "backoff" /\ exitStatus' = NoStatus /\ argv' = argv)
       /\ pc = "backoff" =>
             /\ pc' \in {"installing", "installSpawnFailed"}
             /\ retryCount' = retryCount + 1
             /\ argv' = argv
             /\ Len(installs') = Len(installs) + 1
             /\ Last(installs').retry = retryCount + 1
             /\ ~Last(installs').treeLeft]_vars

\* C2 amended: as above, except that the retry removes node_modules, when it
\* exists, with one rmSync, and the package tree is off the disk when npm is
\* spawned unless that rmSync threw, which the log records as a warning before
\* the start line of the retry.
C2_RetryAfterBestEffortCleanup ==
    [][/\ (pc = "installing" /\ retryCount < 3 /\ closes' = Append(closes, 190)) =>
             (pc' = "backoff" /\ exitStatus' = NoStatus /\ argv' = argv)
       /\ pc = "backoff" =>
             /\ pc' \in {"installing", "installSpawnFailed"}
             /\ retryCount' = retryCount + 1
             /\ argv' = argv
             /\ Len(installs') = Len(installs) + 1
             /\ Last(installs').retry = retryCount + 1
             /\ cleanupCalls' = cleanupCalls + (IF nodeModules.exists THEN 1 ELSE 0)
             /\ Last(installs').treeLeft =>
                   /\ Last(installs').treeWas
                   /\ Len(log') = Len(log) + 3
                   /\ log'[Len(log) + 2].kind = "cleanupWarning"]_vars

C2_Witness ==
    \E i \in 1..Len(installs) :
        installs[i].retry = 1 /\ installs[i].treeWas /\ ~installs[i].treeLeft

\* C3: npm is spawned at most 4 times in an invocation, with retryCount 0, 1,
\* 2, 3 in order, and when the attempt with retryCount 3 exits with code 190 the
\* process exits with status 1.
C3_RetriesBounded ==
    /\ Len(installs) <= 4
    /\ \A i \in 1..Len(installs) : installs[i].retry = i - 1
    /\ (Len(closes) = 4 /\ closes[4] = 190) => (pc = "exited" /\ exitStatus = 1)

C3_Witness == Len(closes) = 4 /\ closes[4] = 190 /\ pc = "exited"

\* C4: a close of npm with a non-zero code other than 190, at any retryCount,
\* exits the process with status 1 in that very step: no npm is spawned, no
\* cleanup runs, executePackageBin is not entered and no child is spawned.
C4_OtherFailureIsFatal ==
    [][(pc = "installing" /\ Len(closes') = Len(closes) + 1
          /\ Last(closes') \notin {0, 190}) =>
            /\ pc' = "exited"
            /\ exitStatus' = 1
            /\ installs' = installs
            /\ cleanupCalls' = cleanupCalls
            /\ Len(log') = Len(log) + 1 /\ Last(log').kind = "failed"
            /\ entry' = NoEntry
            /\ childArgv' = <<>>]_vars

C4_Witness ==
    /\ pc = "exited"
    /\ Len(closes) = 4 /\ closes[4] = 1
    /\ Len(installs) = 4

C6_NonZeroOnEveryFailure ==
    pc = "exited" =>
        /\ exitStatus = 0 => childCode = 0
        /\ (\/ SpecifierMissing(argv)
            \/ (log # <<>> /\ Last(log).kind \in {"error", "failed"})
            \/ entry.outcome \in {"PackageNotFound", "NoBinEntry", "BinFileNotFound"}
            \/ (childArgv # <<>> /\ childCode = NotClosed)) => exitStatus # 0

\* C7: for name, name@version, @scope/name and @scope/name@version the derived
\* name is the specifier without its @version: the scope is kept and a
\* specifier without a version comes back unchanged.
C7_CanonicalNameStripsVersion ==
    (probe.kind = "name" /\ answer.tag = "name") =>
        answer.name = Unversioned(probe.scope, probe.name)

C7_Witness ==
    /\ answer.tag = "name"
    /\ probe.scope # <<>>
    /\ Len(probe.version) = 2

\* C8: a string bin resolves to the tree path joined with it; an object bin with
\* a key equal to the canonical name resolves to the tree path joined with that
\* key's value; an object bin without that key resolves to the tree path joined
\* with its first enumerated value.
C8_BinResolution ==
    (probe.kind = "bin" /\ answer.tag # "none") =>
        LET canonical == Unversioned(probe.scope, probe.name)
            tree == TreeDir(canonical)
            es == probe.bin.entries
            keyed == {i \in 1..Len(es) : es[i].key = canonical}
        IN  /\ probe.bin.kind = "string" =>
                  (answer.tag = "string"
                     /\ answer.full = PathJoin(<<tree, probe.bin.path>>))
            /\ (probe.bin.kind = "object" /\ keyed # {}) =>
                  (answer.tag = "string"
                     /\ answer.full =
                           PathJoin(<<tree, es[CHOOSE i \in keyed : TRUE].value>>))
            /\ (probe.bin.kind = "object" /\ keyed = {} /\ Len(es) > 0) =>
                  (answer.tag = "string"
                     /\ answer.full = PathJoin(<<tree, es[1].value>>))

\* C9: when the manifest's bin field is absent, the empty string or an object
\* with no entries, executePackageBin ends in its 'No bin field found' branch:
\* exit status 1 and no child spawned.
C9_EmptyBinIsNoBinEntry ==
    (entry # NoEntry /\ ExistsSync(PackageJsonPath(entry.name))) =>
        LET tree == TreeAt(nodeModules, PackageJsonPath(entry.name))
        IN  (/\ tree.manifest = "ok"
             /\ \/ tree.bin.kind = "absent"
                \/ (tree.bin.kind = "string" /\ tree.bin.path = <<>>)
                \/ (tree.bin.kind = "object" /\ tree.bin.entries = <<>>)) =>
                (/\ entry.outcome = "NoBinEntry"
                 /\ pc = "exited"
                 /\ exitStatus = 1
                 /\ childArgv = <<>>)

\* C10: over any number of runs, a package.json or .npmrc that exists when
\* ensureInstallDirectorySilent runs is left as it is, whatever its content,
\* and the program writes each of the two files at most once.
C10_SeedFilesWrittenOnce ==
    [][/\ (pc = "start" /\ pc' # "start") =>
             /\ manifest # "absent" => manifest' = manifest
             /\ npmrc # "absent" => npmrc' = npmrc
       /\ manifestWrites' <= 1
       /\ npmrcWrites' <= 1]_vars

C10_Witness ==
    /\ invocation = 2
    /\ installs # <<>>
    /\ manifestWrites = 1
    /\ manifest = "default+deps"
    /\ npmrc = "user"

\* C11: a run without a specifier (absent or empty) does one thing: it exits with
\* status 1; the workspace directory, the manifest, the registry configuration,
\* the install log and node_modules stay as they were and no subprocess is spawned.
C11_UsageErrorHasNoSideEffects ==
    [][(IF Len(argv) = 0 THEN TRUE ELSE argv[1] = <<>>) =>
          /\ pc = "start" /\ pc' = "exited" /\ exitStatus' = 1
          /\ live' = <<>> /\ installs' = <<>> /\ childArgv' = <<>>
          /\ UNCHANGED <<installDir, manifest, npmrc, nodeModules, logBase, log,
                         manifestWrites, npmrcWrites>>]_vars

C11_Witness ==
    /\ argv = <<<<>>, <<"x">>>>
    /\ pc = "exited" /\ exitStatus = 1
    /\ installDir = FALSE /\ ~LogExists

\* C12: when npm cannot be spawned, at any retryCount, the next thing the
\* process does is to append the error to the install log and exit with status
\* 1: no cleanup, no timer, no other install, no 'close' handler and no entry
\* resolution happen, then or later.
C12_SpawnFailureIsFatal ==
    [][/\ pc = "installSpawnFailed" =>
          /\ pc' = "exited" /\ exitStatus' = 1
          /\ log' = Append(log, Line("error", retryCount))
          /\ UNCHANGED <<installs, cleanupCalls, closes, entry, nodeModules, live,
                         timer, childArgv, retryCount>>
       /\ (pc = "exited" /\ Len(log) > 0 /\ Last(log).kind = "error") =>
          UNCHANGED <<pc, exitStatus, log, installs, closes, entry, live>>]_vars

C12_Witness ==
    /\ pc = "exited" /\ exitStatus = 1
    /\ retryCount = 2 /\ Len(installs) = 3 /\ Len(closes) = 2
    /\ Last(log) = Line("error", 2)
    /\ entry = NoEntry

\* C13: at most one subprocess is live at any time: every npm but the last has
\* closed before the next is spawned, all have closed before the package is
\* launched, and while the backoff timer is pending no subprocess is live and
\* nothing has been done since the retry was logged (no cleanup, no install
\* start, no entry resolution).
C13_AtMostOneSubprocessLive ==
    /\ Len(live) <= 1
    /\ Len(installs) - 1 <= Len(closes)
    /\ childArgv # <<>> => Len(closes) = Len(installs)
    /\ pc = "installing" => live = <<Npm(retryCount)>>
    /\ pc = "running" => live = <<Node>>
    /\ pc = "backoff" =>
          /\ live = <<>>
          /\ timer > 0
          /\ Last(log).kind = "retrying"
          /\ Len(installs) = retryCount + 1
          /\ Len(closes) = retryCount + 1
          /\ entry = NoEntry

C13_Witness ==
    /\ pc = "running"
    /\ live = <<Node>>
    /\ Len(installs) = 2 /\ Len(closes) = 2

\* C14: the timer armed when the attempt with retryCount = k, k in 0..2, closed
\* with code 190 is 1000 * (k + 1) ms: 1000, 2000, 3000; the delays that have
\* elapsed before attempt k sum to 1000 + ... + 1000 * k, which is 6000 ms for
\* a run whose four attempts all exited with 190.
C14_BackoffIsLinear ==
    /\ pc = "backoff" =>
          /\ Last(closes) = 190
          /\ retryCount \in 0..2
          /\ timer = 1000 * (retryCount + 1)
    /\ pc # "backoff" => timer = 0
    /\ waited = 500 * retryCount * (retryCount + 1)
    /\ (Len(closes) = 4 /\ \A i \in 1..4 : closes[i] = 190) => waited = 6000

C14_Witness ==
    /\ pc = "exited"
    /\ closes = <<190, 190, 190, 190>>
    /\ waited = 6000

\* C15: when the launched child's close event carries no exit code (the child
\* was ended by a signal), the process exits with a non-zero status.
C15_SignalledChildGivesNonZero ==
    (pc = "exited" /\ childCode = NoCode) => exitStatus > 0

\* C16 as stated: the cleanup is done before the backoff wait begins, so the
\* requested package's tree is off the disk throughout the wait.
C16_CleanupBeforeBackoff ==
    pc = "backoff" => ~ExistsIn(nodeModules, TreeDir(ActualPackageName(argv[1])))

\* C16, amended: the close handler of an attempt that is retried logs the retry
\* and arms the timer without cleaning up; when the timer fires the callback
\* cleans up node_modules (if it exists), then logs the start of the attempt
\* with retryCount + 1, then spawns npm.
C16_CleanupAfterBackoff ==
    [][/\ (pc = "installing" /\ pc' = "backoff") =>
          /\ log' = Append(log, Line("retrying", 190))
          /\ cleanupCalls' = cleanupCalls
          /\ timer' > 0
          /\ UNCHANGED <<retryCount, installs>>
       /\ pc = "backoff" =>
          /\ pc' \in {"installing", "installSpawnFailed"}
          /\ retryCount' = retryCount + 1
          /\ Len(installs') = Len(installs) + 1
          /\ Last(installs').treeWas
                = ExistsIn(nodeModules, TreeDir(ActualPackageName(argv[1])))
          /\ Last(log') = Line("start", retryCount + 1)
          /\ IF nodeModules.exists
             THEN /\ cleanupCalls' = cleanupCalls + 1
                  /\ Len(log') >= Len(log) + 2
                  /\ log'[Len(log) + 1].kind = "cleanup"
             ELSE /\ cleanupCalls' = cleanupCalls
                  /\ Len(log') = Len(log) + 1]_vars

C16_Witness ==
    /\ pc = "installing" /\ retryCount = 1
    /\ cleanupCalls = 1
    /\ installs[2].treeWas /\ ~installs[2].treeLeft
    /\ log = <<Line("start", 0), Line("retrying", 190), Line("cleanup", 0),
               Line("start", 1)>>

\* C17: when the recursive delete of a retry fails (node_modules existed and is
\* still there after cleanupNodeModules), the log gets the cleanup line, the
\* warning and the start line of the attempt with retryCount + 1, npm is
\* spawned for that attempt and the process has not exited.
C17_CleanupFailureDoesNotBlockRetry ==
    [][(pc = "backoff" /\ nodeModules.exists /\ nodeModules'.exists) =>
          /\ log' = log \o <<Line("cleanup", 0), Line("cleanupWarning", 0),
                              Line("start", retryCount + 1)>>
          /\ retryCount' = retryCount + 1
          /\ Last(installs').retry = retryCount + 1
          /\ pc' \in {"installing", "installSpawnFailed"}
          /\ pc' = "installing" => live' = <<Npm(retryCount + 1)>>
          /\ exitStatus' = NoStatus]_vars

C17_Witness ==
    /\ pc = "installing" /\ retryCount = 1
    /\ live = <<Npm(1)>>
    /\ nodeModules.exists
    /\ Len(log) = 5 /\ log[4] = Line("cleanupWarning", 0)

\* C18 as stated: the cleanup of a retry leaves the trees of the other packages,
\* the manifest, the registry configuration and the log as they were, and a run
\* in which no npm exited with 190 deletes nothing.
C18_CleanupDeletesOnlyPackageTree ==
    [][/\ pc = "backoff" =>
          /\ \A t \in nodeModules.trees :
                t.name # ActualPackageName(argv[1]) => t \in nodeModules'.trees
          /\ UNCHANGED <<installDir, manifest, npmrc, logBase>>
          /\ SubSeq(log', 1, Len(log)) = log
       /\ (\A i \in 1..Len(closes') : closes'[i] # 190) =>
          /\ cleanupCalls' = 0
          /\ {t.name : t \in nodeModules.trees} \subseteq {t.name : t \in nodeModules'.trees}]_vars

\* C18, amended: the cleanup of a retry is one recursive delete of the whole
\* node_modules directory: when it succeeds every package's tree is gone with
\* the directory, when it fails the warning is logged; the workspace directory,
\* the manifest and the registry configuration stay as they were and the log
\* only gains lines.  While no npm has exited with 190 the program has run no
\* delete and every directory and file of the workspace is still there.
C18_CleanupDeletesNodeModules ==
    [][/\ pc = "backoff" =>
          /\ UNCHANGED <<installDir, manifest, npmrc, logBase>>
          /\ SubSeq(log', 1, Len(log)) = log
          /\ IF ~nodeModules.exists THEN UNCHANGED <<nodeModules, cleanupCalls>>
             ELSE /\ cleanupCalls' = cleanupCalls + 1
                  /\ log'[Len(log) + 1] = Line("cleanup", 0)
                  /\ \/ nodeModules' = NoNodeModules
                     \/ /\ nodeModules' = nodeModules
                        /\ log'[Len(log) + 2] = Line("cleanupWarning", 0)
       /\ (\A i \in 1..Len(closes') : closes'[i] # 190) =>
          /\ cleanupCalls' = 0
          /\ {t.name : t \in nodeModules.trees} \subseteq {t.name : t \in nodeModules'.trees}
          /\ nodeModules.exists => nodeModules'.exists
          /\ installDir => installDir'
          /\ manifest # "absent" => manifest' # "absent"
          /\ npmrc # "absent" => npmrc' # "absent"
          /\ SubSeq(log', 1, Len(log)) = log /\ logBase' = logBase]_vars

\* the workspace held another package's tree; the first attempt exited with
\* 190 and the cleanup of the retry removed node_modules altogether
C18_Witness ==
    /\ pc = "installing" /\ retryCount = 1
    /\ manifest = "user" /\ npmrc = "user" /\ logBase = "present"
    /\ cleanupCalls = 1
    /\ nodeModules = NoNodeModules

(***************************************************************************)
(* The install log read back: the lines of one attempt run from its start  *)
(* line to the line before the next start line.                            *)
(***************************************************************************)
StartLines(l) == {i \in 1..Len(l) : l[i].kind = "start"}

AttemptEnd(l, i) ==
    IF \E j \in StartLines(l) : j > i
    THEN Min({j \in StartLines(l) : j > i}) - 1
    ELSE Len(l)

\* the lines of kinds `kinds` in the attempt that starts at line i
LinesOfAttempt(l, i, kinds) == {j \in (i + 1)..AttemptEnd(l, i) : l[j].kind \in kinds}

\* l is ordered per attempt, `outcomes` being the kinds of outcome lines and
\* `position` the position of the process: the k-th start line carries k - 1;
\* every chunk follows the start line of its attempt and precedes the outcome
\* line; an attempt that is over has exactly one outcome line and the one
\* still running has none
LogOrdered(l, position, outcomes) ==
    /\ Len(l) > 0 => l[1].kind = "start"
    /\ \A i \in StartLines(l) :
          /\ l[i].n = Cardinality({j \in StartLines(l) : j < i})
          /\ \A j \in LinesOfAttempt(l, i, {"chunk"}) :
                /\ l[j].n = l[i].n
                /\ \A o \in LinesOfAttempt(l, i, outcomes) : j < o
          /\ Cardinality(LinesOfAttempt(l, i, outcomes)) =
                IF AttemptEnd(l, i) = Len(l)
                   /\ position \in {"installing", "installSpawnFailed"}
                THEN 0 ELSE 1

\* C19 as stated: the log only grows, and it is ordered per attempt with the
\* outcome lines 'retrying', 'failed' and 'successfully installed'.
C19_LogOrderedThreeOutcomes ==
    [][/\ SubSeq(log', 1, Len(log)) = log
       /\ logBase' = logBase
       /\ LogOrdered(log', pc', {"retrying", "failed", "success"})]_vars

\* C19, amended: the same with a fourth outcome line, the error line of an
\* attempt whose subprocess could not be spawned.
C19_LogOrderedFourOutcomes ==
    [][/\ SubSeq(log', 1, Len(log)) = log
       /\ logBase' = logBase
       /\ LogOrdered(log', pc', {"retrying", "failed", "success", "error"})]_vars

C19_Witness ==
    /\ pc = "exited"
    /\ log = <<Line("start", 0), Line("chunk", 0), Line("retrying", 190),
               Line("start", 1), Line("error", 1)>>

\* C20: if subprocesses close or report their spawn error and timers fire,
\* every run ends with an exit status; until then the process always has
\* something to wait for: main to run, a live subprocess, a spawn error to be
\* reported or a pending timer; and the retry count never passes 3.
C20_EveryInvocationTerminates ==
    /\ [](pc # "exited" =>
            /\ exitStatus = NoStatus
            /\ retryCount <= 3
            /\ \/ pc = "start"
               \/ pc = "installing" /\ live = <<Npm(retryCount)>>
               \/ pc = "backoff" /\ timer > 0
               \/ pc = "running" /\ live = <<Node>>
               \/ pc \in {"installSpawnFailed", "launchSpawnFailed"})
    /\ <>[](pc = "exited" /\ exitStatus # NoStatus)

\* a run that went through all three retries and then ran the package
C20_Witness ==
    /\ pc = "exited" /\ exitStatus = 0
    /\ retryCount = 3 /\ waited = 6000
    /\ childCode = 0

====
